---------------------------- MODULE Spec2Model ----------------------------
(***************************************************************************)
(* The no-op BPF program (programs/bpf/c/src/noop.c) and the input-buffer  *)
(* deserializer it calls.                                                  *)
(*                                                                         *)
(* entrypoint(input) logs its file name, calls sol_deserialize on the raw  *)
(* pointer it was given, returns false when that fails, and otherwise logs *)
(* the tick height and the parsed parameters and returns true.             *)
(*                                                                         *)
(* Memory is modelled in cells: one cell per field of the host layout (a   *)
(* count, then per account flag, key, owner, balance, data length and the  *)
(* data cells, then the instruction-data length, the instruction cells and *)
(* the cluster-info tick height).  `mem` is everything reachable from the  *)
(* pointer `input`; only its first `buflen` cells are the input buffer.    *)
(* The entrypoint passes sol_deserialize the pointer alone, so nothing the *)
(* deserializer computes can depend on `buflen`; what lies behind the      *)
(* buffer is whatever the host left there.                                 *)
(***************************************************************************)
EXTENDS Integers, Sequences, FiniteSets, TLC

\* ---------------------------------------------------------------- bounds
\* Largest value of a payload cell (key, owner, balance, data byte, tick).
MaxVal == 1
\* Longest account data and longest instruction data the host serializes.
MaxDataLen == 1

\* ------------------------------------------------------ program constants
\* SOL_ARRAY_SIZE(ka) of `SolKeyedAccounts ka[1]`.
Capacity == 1

\* __FILE__ as passed to sol_log.
FileName == "noop.c"

Max2(a, b) == IF a >= b THEN a ELSE b

\* Largest value any cell of a host-built buffer holds.
CellMax == Max2(Max2(MaxVal, MaxDataLen), Capacity + 1)

\* Cells a parse of at most Capacity accounts can touch, whatever the cells hold.
MemSize == 1 + Capacity * (5 + CellMax) + 1 + CellMax + 1

VARIABLES
  host,      \* what the host serialized: [accts, idata, tick] (ghost)
  mem,       \* the cells reachable from `input`
  buflen,    \* how many of them are the input buffer (never passed on)
  pc,        \* position in entrypoint: "entry", "deser", "log64", "params", "done"
  ka,        \* SolKeyedAccounts ka[1]
  ka_len,    \* uint64_t ka_len
  data,      \* const uint8_t *data, as a cell index into mem
  data_len,  \* uint64_t data_len
  info,      \* SolClusterInfo info
  logs,      \* what the logging collaborator received in this invocation
  result,    \* entrypoint's return value, "none" until it returns
  deserOk,   \* sol_deserialize's return value, "none" until it returns (ghost)
  attempts,  \* calls of sol_deserialize in this invocation (ghost)
  maxRead,   \* highest cell sol_deserialize read (ghost)
  written,   \* slots of the destination array sol_deserialize wrote (ghost)
  outRead,   \* entrypoint has read ka, ka_len, data, data_len or info (ghost)
  hist       \* one finished invocation kept for comparison (ghost)

locals == <<ka, ka_len, data, data_len, info>>
ghosts == <<deserOk, attempts, maxRead, written, outRead>>
input  == <<host, mem, buflen>>
vars   == <<host, mem, buflen, pc, ka, ka_len, data, data_len, info, logs,
            result, deserOk, attempts, maxRead, written, outRead, hist>>

\* ------------------------------------------------------------- host side
Vals == 0..MaxVal

RECURSIVE SeqsUpTo(_, _)
SeqsUpTo(S, n) ==
  IF n = 0 THEN {<<>>}
  ELSE LET shorter == SeqsUpTo(S, n - 1)
       IN  shorter \cup {Append(s, x) : s \in {t \in shorter : Len(t) = n - 1}, x \in S}

Payloads == SeqsUpTo(Vals, MaxDataLen)

Accounts ==
  [flag : 0..1, key : Vals, owner : Vals, balance : Vals, data : Payloads]

\* The account lists the host passes: every list that fits the destination
\* array, and an account without data passed Capacity + 1 times.
AccountLists ==
  UNION {{[i \in 1..n |-> a] : a \in Accounts} : n \in 0..Capacity}
    \cup {[i \in 1..(Capacity + 1) |-> a] : a \in {b \in Accounts : b.data = <<>>}}

HostInputs == [accts : AccountLists, idata : Payloads, tick : Vals]

SerializeAccount(a) ==
  <<a.flag, a.key, a.owner, a.balance, Len(a.data)>> \o a.data

RECURSIVE SerializeAccounts(_)
SerializeAccounts(accts) ==
  IF accts = <<>> THEN <<>>
  ELSE SerializeAccount(Head(accts)) \o SerializeAccounts(Tail(accts))

\* The host layout: count, account records, instruction data, cluster info.
Serialize(h) ==
  <<Len(h.accts)>> \o SerializeAccounts(h.accts)
    \o <<Len(h.idata)>> \o h.idata \o <<h.tick>>

Fill(n, v) == [i \in 1..n |-> v]

\* What lies behind a buffer cut short: the cells the full buffer would have
\* held (stale), or cells all holding the least or the largest value.
Tails == {[stale |-> TRUE, fill |-> 0]} \cup {[stale |-> FALSE, fill |-> v] : v \in {0, MaxVal}}

Memory(full, cut, tail) ==
  LET kept == IF tail.stale THEN full ELSE SubSeq(full, 1, cut)
      pad  == tail.fill
      size == Max2(Len(full), MemSize)
  IN  kept \o Fill(size - Len(kept), pad)

\* --------------------------------------------------------- memory access
Rd(m, i) == IF i \in DOMAIN m THEN m[i] ELSE 0

Slice(m, off, len) == [i \in 1..len |-> Rd(m, off + i - 1)]

\* ------------------------------------------------- uninitialized locals
JunkSlot == [flag |-> 0, key |-> 0, owner |-> 0, balance |-> 0, data_len |-> 0, data |-> 0]

\* entrypoint's locals are not initialized: they hold whatever the stack
\* held, here lengths no parse of a valid buffer produces.
JunkFrames ==
  {<<[i \in 1..Capacity |-> JunkSlot], Capacity + 1, 0, Capacity + 1,
     [tick_height |-> Capacity + 1]>>}

\* A finished invocation kept for comparison; NoHist until one is kept.
NoHist == [kept |-> FALSE, buf |-> <<>>, result |-> "none", logs |-> <<>>]

Ret(b) == IF b THEN "true" ELSE "false"

\* ------------------------------------------------------- sol_deserialize
\* Account records from cell `pos` on: each slot takes the flag, key and
\* owner by value and borrows the balance cell and the data cells.
RECURSIVE ParseAccounts(_, _, _)
ParseAccounts(m, pos, n) ==
  IF n = 0 THEN [slots |-> <<>>, next |-> pos]
  ELSE LET slot == [flag     |-> Rd(m, pos),
                    key      |-> Rd(m, pos + 1),
                    owner    |-> Rd(m, pos + 2),
                    balance  |-> pos + 3,
                    data_len |-> Rd(m, pos + 4),
                    data     |-> pos + 5]
           rest == ParseAccounts(m, pos + 5 + slot.data_len, n - 1)
       IN  [slots |-> <<slot>> \o rest.slots, next |-> rest.next]

\* sol_deserialize(input, ka, ka_len, &ka_len_out, &data, &data_len, &info):
\* fails when the encoded count exceeds the destination's capacity, and
\* otherwise walks the layout from the pointer.  It is given no length.
SolDeserialize(m, cap) ==
  LET count == Rd(m, 1)
  IN  IF count > cap
      THEN [ok |-> FALSE, slots |-> <<>>, ka_len |-> 0, data |-> 0,
            data_len |-> 0, tick |-> 0, maxRead |-> 1]
      ELSE LET p    == ParseAccounts(m, 2, count)
               ilen == Rd(m, p.next)
               tpos == p.next + 1 + ilen
           IN  [ok |-> TRUE, slots |-> p.slots, ka_len |-> count,
                data |-> p.next + 1, data_len |-> ilen,
                tick |-> Rd(m, tpos), maxRead |-> tpos]

\* --------------------------------------------------------- sol_log_params
KaAt(i) == IF i \in DOMAIN ka THEN ka[i] ELSE JunkSlot

AccountView(m, slot) ==
  [flag    |-> slot.flag,
   key     |-> slot.key,
   owner   |-> slot.owner,
   balance |-> Rd(m, slot.balance),
   data    |-> Slice(m, slot.data, slot.data_len)]

\* What sol_log_params(ka, ka_len, data, data_len) reads and logs.
ParamsView ==
  [accounts |-> [i \in 1..ka_len |-> AccountView(mem, KaAt(i))],
   data     |-> Slice(mem, data, data_len)]

\* ------------------------------------------------------------ invocation
SetLocals(frame) ==
  /\ ka' = frame[1]
  /\ ka_len' = frame[2]
  /\ data' = frame[3]
  /\ data_len' = frame[4]
  /\ info' = frame[5]

\* The host calls entrypoint(input): a buffer, whatever lies behind it, and
\* a fresh stack frame.
Enter(h, cut, tail, frame) ==
  /\ host' = h
  /\ mem' = Memory(Serialize(h), cut, tail)
  /\ buflen' = cut
  /\ SetLocals(frame)
  /\ pc' = "entry"
  /\ logs' = <<>>
  /\ result' = "none"
  /\ deserOk' = "none"
  /\ attempts' = 0
  /\ maxRead' = 0
  /\ written' = {}
  /\ outRead' = FALSE

\* The tail is only looked at when the buffer was cut short.
TailsFor(h, cut) ==
  IF cut = Len(Serialize(h)) THEN {[stale |-> FALSE, fill |-> 0]} ELSE Tails

\* Between invocations nothing of the program exists: no buffer, no frame.
NoInput == [accts |-> <<>>, idata |-> <<>>, tick |-> 0]

ZeroFrame == <<[i \in 1..Capacity |-> JunkSlot], 0, 0, 0, [tick_height |-> 0]>>

Init ==
  /\ host = NoInput
  /\ mem = <<>>
  /\ buflen = 0
  /\ ka = ZeroFrame[1]
  /\ ka_len = ZeroFrame[2]
  /\ data = ZeroFrame[3]
  /\ data_len = ZeroFrame[4]
  /\ info = ZeroFrame[5]
  /\ pc = "idle"
  /\ logs = <<>>
  /\ result = "none"
  /\ deserOk = "none"
  /\ attempts = 0
  /\ maxRead = 0
  /\ written = {}
  /\ outRead = FALSE
  /\ hist = NoHist

\* The host serializes an input, possibly hands over less than all of it,
\* and calls entrypoint.
Invoke ==
  /\ pc = "idle"
  /\ \E h \in HostInputs :
       \E cut \in 0..Len(Serialize(h)) :
         \E tail \in TailsFor(h, cut) :
           \E frame \in JunkFrames : Enter(h, cut, tail, frame)
  /\ UNCHANGED hist

\* entrypoint has returned: the host takes the result and the frame is gone.
Exit ==
  /\ pc = "done"
  /\ hist = NoHist
  /\ host' = NoInput
  /\ mem' = <<>>
  /\ buflen' = 0
  /\ SetLocals(ZeroFrame)
  /\ pc' = "idle"
  /\ logs' = <<>>
  /\ result' = "none"
  /\ deserOk' = "none"
  /\ attempts' = 0
  /\ maxRead' = 0
  /\ written' = {}
  /\ outRead' = FALSE
  /\ UNCHANGED hist

\* ------------------------------------------------------------ entrypoint
FileLine   == [fn |-> "sol_log", args |-> <<FileName>>]
TickLine   == [fn |-> "sol_log_64", args |-> <<info.tick_height, 0, 0, 0, 0>>]
ParamsLine == [fn |-> "sol_log_params", args |-> <<ParamsView>>]

\* A variant that also logs the tick height before anything was parsed.
LogFile_ThenTick ==
  /\ pc = "entry"
  /\ logs' = logs \o <<FileLine, TickLine>>
  /\ pc' = "deser"
  /\ UNCHANGED <<input, locals, result, ghosts, hist>>

\* sol_log(__FILE__);
LogFile ==
  /\ pc = "entry"
  /\ logs' = Append(logs, FileLine)
  /\ pc' = "deser"
  /\ UNCHANGED <<input, locals, result, ghosts, hist>>

\* sol_deserialize has returned r (bookkeeping of the call).
Returned(r) ==
  /\ attempts' = attempts + 1
  /\ deserOk' = Ret(r.ok)
  /\ maxRead' = r.maxRead
  /\ written' = 1..Len(r.slots)

\* The out-parameters ka, &ka_len, &data, &data_len, &info as the call
\* passes them.
StoreOutputs(r) ==
  /\ ka' = [i \in 1..Capacity |-> IF i <= Len(r.slots) THEN r.slots[i] ELSE ka[i]]
  /\ ka_len' = r.ka_len
  /\ data' = r.data
  /\ data_len' = r.data_len
  /\ info' = [tick_height |-> r.tick]

\* A variant that passes a capacity one larger than the array.
Deserialize_CapacityTooLarge ==
  /\ pc = "deser"
  /\ \E r \in {SolDeserialize(mem, Capacity + 1)} :
         /\ Returned(r)
         /\ IF r.ok
            THEN StoreOutputs(r) /\ pc' = "log64" /\ UNCHANGED result
            ELSE UNCHANGED locals /\ pc' = "done" /\ result' = "false"
  /\ UNCHANGED <<input, logs, outRead, hist>>

\* A variant that passes &data_len where &ka_len belongs and the reverse.
Deserialize_SwapsLengths ==
  /\ pc = "deser"
  /\ \E r \in {SolDeserialize(mem, Capacity)} :
         /\ Returned(r)
         /\ IF r.ok
            THEN /\ StoreOutputs([r EXCEPT !.ka_len = r.data_len, !.data_len = r.ka_len])
                 /\ pc' = "log64"
                 /\ UNCHANGED result
            ELSE UNCHANGED locals /\ pc' = "done" /\ result' = "false"
  /\ UNCHANGED <<input, logs, outRead, hist>>

\* A variant whose test of sol_deserialize's result lacks the `!`.
Deserialize_InvertedTest ==
  /\ pc = "deser"
  /\ \E r \in {SolDeserialize(mem, Capacity)} :
         /\ Returned(r)
         /\ IF r.ok
            THEN StoreOutputs(r) /\ pc' = "done" /\ result' = "false"
            ELSE UNCHANGED locals /\ pc' = "log64" /\ UNCHANGED result
  /\ UNCHANGED <<input, logs, outRead, hist>>

\* A variant that does not test sol_deserialize's result.
Deserialize_IgnoresFailure ==
  /\ pc = "deser"
  /\ \E r \in {SolDeserialize(mem, Capacity)} :
         /\ Returned(r)
         /\ IF r.ok THEN StoreOutputs(r) ELSE UNCHANGED locals
         /\ pc' = "log64"
         /\ UNCHANGED result
  /\ UNCHANGED <<input, logs, outRead, hist>>

\* if (!sol_deserialize(input, ka, SOL_ARRAY_SIZE(ka), &ka_len, &data,
\*                      &data_len, &info)) { return false; }
Deserialize ==
  /\ pc = "deser"
  /\ \E r \in {SolDeserialize(mem, Capacity)} :
         /\ Returned(r)
         /\ IF r.ok
            THEN StoreOutputs(r) /\ pc' = "log64" /\ UNCHANGED result
            ELSE \* a failure has no side effects on the outputs
                 UNCHANGED locals /\ pc' = "done" /\ result' = "false"
  /\ UNCHANGED <<input, logs, outRead, hist>>

\* A variant that passes the tick height as the last argument.
Log64_TickLast ==
  /\ pc = "log64"
  /\ logs' = Append(logs, [fn |-> "sol_log_64", args |-> <<0, 0, 0, 0, info.tick_height>>])
  /\ outRead' = TRUE
  /\ pc' = "params"
  /\ UNCHANGED <<input, locals, result, deserOk, attempts, maxRead, written, hist>>

\* sol_log_64(info.tick_height, 0, 0, 0, 0);
Log64 ==
  /\ pc = "log64"
  /\ logs' = Append(logs, TickLine)
  /\ outRead' = TRUE
  /\ pc' = "params"
  /\ UNCHANGED <<input, locals, result, deserOk, attempts, maxRead, written, hist>>

\* A variant whose last statement is `return false`.
LogParams_ReturnsFalse ==
  /\ pc = "params"
  /\ logs' = Append(logs, ParamsLine)
  /\ outRead' = TRUE
  /\ result' = "false"
  /\ pc' = "done"
  /\ UNCHANGED <<input, locals, deserOk, attempts, maxRead, written, hist>>

\* sol_log_params(ka, ka_len, data, data_len); return true;
LogParams ==
  /\ pc = "params"
  /\ logs' = Append(logs, ParamsLine)
  /\ outRead' = TRUE
  /\ result' = "true"
  /\ pc' = "done"
  /\ UNCHANGED <<input, locals, deserOk, attempts, maxRead, written, hist>>

Step == LogFile \/ Deserialize \/ Log64 \/ LogParams

Next == Invoke \/ LogFile \/ Deserialize \/ Log64 \/ LogParams \/ Exit

Spec == Init /\ [][Next]_vars

\* ------------------------------------------- two invocations, one buffer
\* The buffer proper: the cells the host handed over.
Buffer == SubSeq(mem, 1, buflen)

\* Keep a finished invocation's buffer, result and logs.
Remember ==
  /\ pc = "done"
  /\ hist = NoHist
  /\ hist' = [kept |-> TRUE, buf |-> Buffer, result |-> result, logs |-> logs]
  /\ UNCHANGED <<input, pc, locals, logs, result, ghosts>>

\* The host calls entrypoint again with an equal buffer; what lies behind
\* the buffer and on the stack is whatever is there by then.
Replay ==
  /\ pc = "done"
  /\ hist.kept
  /\ \E tail \in TailsFor(host, buflen) :
       \E frame \in JunkFrames \cup {locals} : Enter(host, buflen, tail, frame)
  /\ UNCHANGED hist

NextSeq == Next \/ Remember \/ Replay

SpecSeq == Init /\ [][NextSeq]_vars

\* ================================================================ claims
Full == Serialize(host)

Running == pc \in {"entry", "deser", "log64", "params"}

\* sol_deserialize has been called and has returned in this invocation.
Called == attempts >= 1

\* The buffer holds all of what the host serialized.
WellFormed == pc # "idle" /\ buflen = Len(Full) /\ Buffer = Full

\* The buffer ends before the layout the host serialized does.
Truncated == pc # "idle" /\ buflen < Len(Full) /\ Buffer = SubSeq(Full, 1, buflen)

\* The buffer's count field is present and exceeds the destination array.
OverCapacity == pc # "idle" /\ buflen >= 1 /\ mem[1] > Capacity

\* A borrowed slice of len cells at off lies inside the input buffer (an
\* empty slice borrows no cell).
InBuffer(off, len) == len = 0 \/ (off >= 1 /\ off + len - 1 <= buflen)

\* C1: when the encoded account count exceeds the capacity of ka (1 slot),
\* sol_deserialize fails, no slot beyond the capacity is written, and
\* entrypoint returns false without having read ka, ka_len, data, data_len
\* or info; a count reported on success never exceeds the capacity.
C1_OverCapacityRejected ==
  /\ written \subseteq 1..Capacity
  /\ deserOk = "true" => ka_len <= Capacity
  /\ (Called /\ OverCapacity) =>
       /\ deserOk = "false"
       /\ pc = "done"
       /\ result = "false"
       /\ ~outRead

C1_Witness ==
  /\ pc = "done"
  /\ OverCapacity
  /\ WellFormed
  /\ Len(host.accts) = Capacity + 1
  /\ result = "false"

\* C2: for a well-formed buffer whose encoded account count is at most the
\* capacity, deserialization succeeds, ka_len equals the encoded count, and
\* entrypoint returns true.
C2_WellFormedSucceeds ==
  (Called /\ WellFormed /\ mem[1] <= Capacity) =>
    /\ deserOk = "true"
    /\ ka_len = mem[1]
    /\ ka_len = Len(host.accts)
    /\ pc = "done" => result = "true"

C2_Witness ==
  /\ pc = "done"
  /\ WellFormed
  /\ Len(host.accts) = Capacity
  /\ ka_len = Capacity
  /\ result = "true"

\* C3 (as claimed): for a buffer truncated before a declared field is fully
\* present, deserialization fails and no cell past the end of the buffer is
\* read.
C3_TruncatedInputFails ==
  (Called /\ Truncated) => (deserOk = "false" /\ maxRead <= buflen)

\* C4: entrypoint returns false exactly when sol_deserialize reported
\* failure and true otherwise; sol_deserialize is called once per invocation
\* and a failure ends the invocation; a running invocation can always take
\* its next step and has not returned yet.
C4_ReturnIffDeserializeFailed ==
  /\ attempts <= 1
  /\ pc = "done" => (attempts = 1 /\ result \in {"true", "false"} /\ result = deserOk)
  /\ deserOk = "false" => pc = "done"
  /\ Running => (result = "none" /\ ENABLED Step)

C4_Witness ==
  /\ pc = "done"
  /\ deserOk = "false"
  /\ result = "false"
  /\ attempts = 1

\* C5 (as claimed): after a successful deserialization every account's data
\* slice and the instruction-data slice lie within the input buffer.
C5_SlicesWithinBuffer ==
  deserOk = "true" =>
    /\ InBuffer(data, data_len)
    /\ \A i \in 1..ka_len : InBuffer(KaAt(i).data, KaAt(i).data_len)

\* C6: serializing accounts (count within capacity), instruction bytes and
\* cluster info in the host layout and deserializing the result succeeds and
\* yields the same count, the same key, flag, owner, balance and data of
\* every account, the same instruction bytes and the same tick height.
C6_RoundTrip ==
  (Called /\ WellFormed /\ Len(host.accts) <= Capacity) =>
    /\ deserOk = "true"
    /\ ka_len = Len(host.accts)
    /\ \A i \in 1..Len(host.accts) : AccountView(mem, KaAt(i)) = host.accts[i]
    /\ Slice(mem, data, data_len) = host.idata
    /\ info.tick_height = host.tick

C6_Witness ==
  /\ pc = "done"
  /\ WellFormed
  /\ Len(host.accts) = 1
  /\ host.accts[1].data # <<>>
  /\ host.accts[1].key # host.accts[1].owner
  /\ host.accts[1].balance = MaxVal
  /\ host.idata # <<>>
  /\ host.tick = MaxVal
  /\ deserOk = "true"

\* C7 (as claimed): no log line is emitted before sol_deserialize has
\* returned true, and a failed invocation emits no log line at all.
C7_NoLogBeforeSuccess == logs # <<>> => deserOk = "true"

\* C7 (amended): the file-name line is emitted before sol_deserialize is
\* called; every other log line is emitted only after sol_deserialize has
\* returned true, and a failed invocation emits the file-name line alone.
C7_OutputLogsOnlyAfterSuccess ==
  /\ \A i \in DOMAIN logs : logs[i].fn # "sol_log" => deserOk = "true"
  /\ deserOk = "none" => (logs = <<>> \/ logs = <<FileLine>>)
  /\ Called => logs[1] = FileLine
  /\ deserOk = "false" => logs = <<FileLine>>

C7_Witness ==
  /\ pc = "done"
  /\ deserOk = "false"
  /\ logs = <<FileLine>>

\* C8: the buffer encoding zero accounts and an instruction-data length of
\* zero deserializes successfully with ka_len = 0 and data_len = 0, the
\* logged account set and instruction slice are empty, and entrypoint
\* returns true.
C8_EmptyInputSucceeds ==
  (Called /\ buflen = 3 /\ mem[1] = 0 /\ mem[2] = 0) =>
    /\ deserOk = "true"
    /\ ka_len = 0
    /\ data_len = 0
    /\ pc = "done" =>
         /\ result = "true"
         /\ logs[3].args = <<[accounts |-> <<>>, data |-> <<>>]>>

C8_Witness ==
  /\ pc = "done"
  /\ buflen = 3
  /\ Buffer = <<0, 0, MaxVal>>
  /\ result = "true"

\* C9 (as claimed): two invocations given equal input buffers return the
\* same result and emit the same logs.
C9_EqualBuffersEqualOutcome ==
  (hist.kept /\ pc = "done" /\ Buffer = hist.buf) =>
    (result = hist.result /\ logs = hist.logs)

\* C10: an invocation whose deserialization succeeds emits the file name,
\* then the tick height followed by four zeros, then the parsed accounts
\* and instruction data, and only then returns true; an invocation that
\* returns false has emitted neither the tick-height nor the parameter line.
C10_LogOrder ==
  /\ deserOk = "true" =>
       /\ pc = "log64" => (logs = <<FileLine>> /\ result = "none")
       /\ pc = "params" => (logs = <<FileLine, TickLine>> /\ result = "none")
       /\ pc = "done" => (logs = <<FileLine, TickLine, ParamsLine>> /\ result = "true")
  /\ result = "true" => (deserOk = "true" /\ Len(logs) = 3)
  /\ (result = "true" /\ WellFormed) =>
       /\ logs[2].args = <<host.tick, 0, 0, 0, 0>>
       /\ logs[3].args = <<[accounts |-> host.accts, data |-> host.idata]>>
  /\ result = "false" =>
       \A i \in DOMAIN logs : logs[i].fn \notin {"sol_log_64", "sol_log_params"}

C10_Witness ==
  /\ pc = "done"
  /\ result = "true"
  /\ WellFormed
  /\ Len(host.accts) = 1
  /\ host.tick = MaxVal
  /\ Len(logs) = 3

=============================================================================
